---- MODULE Spec2Model ----
(***************************************************************************)
(* Model of the subcircuit-matching core of the circuit simplifier:        *)
(*   - ThreeColoring::ThreeColoring (three_coloring.hpp), one action per   *)
(*     branch of the loop body over reverse_view(gate_sorting);            *)
(*   - CircuitDB::read_db and the DBSingleton registry (circuits_db.hpp).  *)
(***************************************************************************)
EXTENDS Integers, Sequences, FiniteSets, TLC

\* ------------------------------------------------------------------------
\* Bounds of the model
\* ------------------------------------------------------------------------
\* number of primary inputs of the circuits explored
NumInputs == 4
\* number of non-input gates of the circuits explored
MaxGates == 5
\* number of unary gates a circuit explored may hold
MaxUnary == 2
\* number of records of the database files explored
MaxRecords == 2
\* largest gate id a database record may name
MaxGateId == 3
\* number of outputs a database record may declare
MaxOutputs == 2
\* number of CircuitDB objects a run may construct
NumHandles == 3
\* number of registry accesses a run may make
MaxCalls == 3

\* (size_t)-1, the "no colour" / "no user" sentinel
SIZE_MAX == -1

CircuitSize == NumInputs + MaxGates
GateIds == 0 .. (CircuitSize - 1)

\* ------------------------------------------------------------------------
\* State
\* ------------------------------------------------------------------------
VARIABLES
    operands,         \* circuit.getGateOperands, for the gates the loop has reached
    gateTypes,        \* circuit.getGateType, for the gates the loop has reached
    gate_sorting,     \* result of the topological sort
    twoColoring,      \* the TwoColoring, for the gates the loop has reached
    colors,           \* ThreeColoring::colors
    gateColors,       \* ThreeColoring::gateColors
    parentsToColor,   \* ThreeColoring::parentsToColor
    negationUsers,    \* ThreeColoring::negationUsers
    next_color_id_,   \* ThreeColoring::next_color_id_
    visited,          \* number of rounds of the loop over reverse_view(gate_sorting) done
    outcome,          \* "running" | "done" | "exit"
    exit_status,      \* argument of std::exit, 0 while none
    diag_gate,        \* gate id written to std::cerr, SIZE_MAX while none
    gateBranch        \* history: the branch of the loop body each gate went through

coloringVars == <<operands, gateTypes, gate_sorting, twoColoring, colors, gateColors,
                  parentsToColor, negationUsers, next_color_id_, visited, outcome,
                  exit_status, diag_gate, gateBranch>>

VARIABLES
    subcircuit_pattern_to_index,  \* CircuitDB::subcircuit_pattern_to_index
    subcircuit_outputs,           \* CircuitDB::subcircuit_outputs
    gates_operands,               \* CircuitDB::gates_operands
    OPER_number,                  \* CircuitDB::OPER_number
    gates_operations,             \* CircuitDB::gates_operations
    subcircuit_index,             \* read_db: index of the record being read
    inputs_number,                \* read_db: inputs_number of the record being read
    max_index,                    \* read_db: bound of the gate loop
    gate_index,                   \* read_db: loop variable i of the gate loop
    db_pc,                        \* "idle" | "record" (line 74) | "gates" (line 103) | "eof"
    db_records                    \* history: inputs_number and outputs_patterns of each record read

dbVars == <<subcircuit_pattern_to_index, subcircuit_outputs, gates_operands, OPER_number,
            gates_operations, subcircuit_index, inputs_number, max_index, gate_index,
            db_pc, db_records>>

VARIABLES
    bench_db,         \* DBSingleton::bench_db
    aig_db,           \* DBSingleton::aig_db
    next_handle,      \* the CircuitDB object the next successful construction yields
    returned,         \* the pointer the last registry access returned, nullptr if none
    last_call,        \* history: "none" | "ctor" | "aig" | "bench"
    calls,            \* history: number of registry accesses made
    reg_outcome       \* "idle" | "running" | "abort"

regVars == <<bench_db, aig_db, next_handle, returned, last_call, calls, reg_outcome>>

vars == <<coloringVars, dbVars, regVars>>

\* ------------------------------------------------------------------------
\* Helpers
\* ------------------------------------------------------------------------
Min2(a, b) == IF a <= b THEN a ELSE b
Max2(a, b) == IF a >= b THEN a ELSE b

\* std::sort of three gate ids
sortedParents(a, b, c) ==
    LET lo == Min2(a, Min2(b, c))
        hi == Max2(a, Max2(b, c))
        mid == a + b + c - lo - hi
    IN  <<lo, mid, hi>>

\* ThreeColor constructor: parents kept in ascending order, no gates yet
ThreeColor(a, b, c) ==
    LET p == sortedParents(a, b, c)
    IN  [first_parent |-> p[1], second_parent |-> p[2], third_parent |-> p[3],
         gates_ |-> <<>>]

getParents(col) == <<col.first_parent, col.second_parent, col.third_parent>>

hasParent(col, g) ==
    col.first_parent = g \/ col.second_parent = g \/ col.third_parent = g

\* TwoColor::hasParent
hasParent2(col, g) == col.first_parent = g \/ col.second_parent = g

Reverse(s) == [i \in 1 .. Len(s) |-> s[Len(s) + 1 - i]]

\* ------------------------------------------------------------------------
\* TwoColoring (two_coloring.hpp)
\* ------------------------------------------------------------------------
TwoColor(a, b) ==
    [first_parent |-> Min2(a, b), second_parent |-> Max2(a, b)]

TwoColorIndex(tcolors, a, b) ==
    LET hit == {i \in 1 .. Len(tcolors) : tcolors[i] = TwoColor(a, b)}
    IN  IF hit = {} THEN SIZE_MAX ELSE (CHOOSE i \in hit : TRUE) - 1

\* one gate of the two-colouring pass: inputs and unary gates stay uncoloured;
\* a binary gate whose operands carry the same colour takes that colour,
\* any other binary gate takes the (found or created) colour of its operand pair
TwoColoringStep(tc, g, ops) ==
    IF Len(ops) # 2
    THEN tc
    ELSE LET a == ops[1]
             b == ops[2]
         IN  IF tc.gateColor[a] # SIZE_MAX /\ tc.gateColor[a] = tc.gateColor[b]
             THEN [tc EXCEPT !.gateColor[g] = tc.gateColor[a]]
             ELSE LET found == TwoColorIndex(tc.colors, a, b)
                  IN  IF found # SIZE_MAX
                      THEN [tc EXCEPT !.gateColor[g] = found]
                      ELSE [colors |-> Append(tc.colors, TwoColor(a, b)),
                            gateColor |-> [tc.gateColor EXCEPT ![g] = Len(tc.colors)]]

\* colors.at(id) of a TwoColoring (ColorIds count from 0)
TwoColorAt(tc, id) == tc.colors[id + 1]

\* ------------------------------------------------------------------------
\* ThreeColoring: the colouring under construction, as one record
\* ------------------------------------------------------------------------
Coloring ==
    [colors |-> colors, gateColors |-> gateColors,
     parentsToColor |-> parentsToColor, next_color_id_ |-> next_color_id_]

\* colors.at(id) (ColorIds count from 0)
ColorAt(S, id) == S.colors[id + 1]

\* ThreeColoring::addColor
addColor(S, a, b, c) ==
    LET key == sortedParents(a, b, c)
    IN  [S EXCEPT
           !.colors = Append(S.colors, ThreeColor(a, b, c)),
           !.parentsToColor =
               [k \in (DOMAIN S.parentsToColor) \cup {key} |->
                   IF k = key THEN S.next_color_id_ ELSE S.parentsToColor[k]],
           !.next_color_id_ = S.next_color_id_ + 1]

\* ThreeColoring::paintGate
paintGate(S, g, colorId) ==
    [S EXCEPT
       !.colors[colorId + 1].gates_ = Append(S.colors[colorId + 1].gates_, g),
       !.gateColors[g] = Append(S.gateColors[g], colorId)]

\* paintSynthesized without the lookup: a colour is added every time
paintSynthesizedUnchecked(S, g, a, b, c) ==
    LET key == sortedParents(a, b, c)
        T == addColor(S, key[1], key[2], key[3])
    IN  paintGate(T, g, T.parentsToColor[key])

\* "if (parentsToColor.find(p) == end()) addColor(p...); paintGate(g, parentsToColor[p])"
paintSynthesized(S, g, a, b, c) ==
    LET key == sortedParents(a, b, c)
        T == IF key \in DOMAIN S.parentsToColor
             THEN S
             ELSE addColor(S, key[1], key[2], key[3])
    IN  paintGate(T, g, T.parentsToColor[key])

\* paintGate for every colour of a list, in list order
RECURSIVE paintAll(_, _, _)
paintAll(S, g, list) ==
    IF list = <<>>
    THEN S
    ELSE paintAll(paintGate(S, g, Head(list)), g, Tail(list))

\* ------------------------------------------------------------------------
\* Pattern search over the colours of the two TwoColor parents (lines 165-187)
\* ------------------------------------------------------------------------
\* the entries of list equal to c, in list order
RECURSIVE Matches(_, _)
Matches(list, c) ==
    IF list = <<>>
    THEN <<>>
    ELSE (IF Head(list) = c THEN <<c>> ELSE <<>>) \o Matches(Tail(list), c)

\* common_colors: one entry per pair (i, j) with C1[i] = C2[j], i outer, j inner
RECURSIVE commonColors(_, _)
commonColors(C1, C2) ==
    IF C1 = <<>>
    THEN <<>>
    ELSE Matches(C2, Head(C1)) \o commonColors(Tail(C1), C2)

MaxOf(set) == CHOOSE i \in set : \A j \in set : j <= i
MinOf(set) == CHOOSE i \in set : \A j \in set : i <= j

\* color_type_13: assigned in the inner loop, for a pair of different colours,
\* when the second child's colour has child_1 as a parent; the value left is the
\* one of the last assignment
colorType13(S, C1, C2, c1) ==
    LET Assigns(i) == {j \in 1 .. Len(C2) :
                          C1[i] # C2[j] /\ hasParent(ColorAt(S, C2[j]), c1)}
        rounds == {i \in 1 .. Len(C1) : Assigns(i) # {}}
    IN  IF rounds = {} THEN SIZE_MAX ELSE C2[MaxOf(Assigns(MaxOf(rounds)))]

\* color_type_31: assigned at the end of a round of the outer loop
colorType31(S, C1, c2) ==
    LET hit == {i \in 1 .. Len(C1) : hasParent(ColorAt(S, C1[i]), c2)}
    IN  IF hit = {} THEN SIZE_MAX ELSE C1[MaxOf(hit)]

\* scanBothParents with "||" in place of "&&"
scanEitherParent(S, list, p1, p2) ==
    LET hit == {i \in 1 .. Len(list) :
                   hasParent(ColorAt(S, list[i]), p1) \/ hasParent(ColorAt(S, list[i]), p2)}
    IN  IF hit = {} THEN SIZE_MAX ELSE list[MinOf(hit)]

\* the scans of lines 220-228, 257-265, 293-301 and 314-322: the first colour
\* of the list that has both parents
scanBothParents(S, list, p1, p2) ==
    LET hit == {i \in 1 .. Len(list) :
                   hasParent(ColorAt(S, list[i]), p1) /\ hasParent(ColorAt(S, list[i]), p2)}
    IN  IF hit = {} THEN SIZE_MAX ELSE list[MinOf(hit)]

\* ------------------------------------------------------------------------
\* The circuit.  The loop reaches one gate per round; the model draws a gate's
\* description when the loop reaches it, and extends the TwoColoring by that
\* gate.  The operands of a gate are gates reached in earlier rounds: the sort
\* puts every gate's operands after it, and the loop walks the sort backwards.
\* The first NumInputs gates reached are the primary inputs, numbered in the
\* order of their first use.
\* ------------------------------------------------------------------------
\* the gate reached in round p (rounds count from 0)
GateAt(sorting, p) == sorting[Len(sorting) - p]

\* the gates reached so far
ReachedGates == DOMAIN operands

UnaryGates == {g \in ReachedGates : Len(operands[g]) = 1}

\* number of primary inputs some gate reached so far uses
UsedInputs ==
    Cardinality({q \in 0 .. (NumInputs - 1) :
                    \E g \in ReachedGates, i \in 1 .. 3 :
                       i <= Len(operands[g]) /\ operands[g][i] = GateAt(gate_sorting, q)})

\* an operand of a new gate: a gate, an input in use, or the next unused input
InOrderOfUse(q) == q >= NumInputs \/ q <= UsedInputs

\* two operands of a new gate: the same, or the next two unused inputs
PairInOrderOfUse(q, r) ==
    /\ q < r
    /\ InOrderOfUse(q)
    /\ InOrderOfUse(r) \/ (q = UsedInputs /\ r = UsedInputs + 1)

\* the descriptions the gate of round p may have
GateChoices(p) ==
    IF p < NumInputs
    THEN {[type |-> "INPUT", ops |-> <<>>]}
    ELSE {[type |-> "AND", ops |-> <<GateAt(gate_sorting, x[1]), GateAt(gate_sorting, x[2])>>] :
              x \in {y \in (0 .. (p - 1)) \X (0 .. (p - 1)) : PairInOrderOfUse(y[1], y[2])}}
         \cup {[type |-> "NOT", ops |-> <<GateAt(gate_sorting, q)>>] :
                  q \in {r \in 0 .. (p - 1) :
                            InOrderOfUse(r) /\ Cardinality(UnaryGates) < MaxUnary}}
         \cup {[type |-> "BUFF", ops |-> <<GateAt(gate_sorting, q)>>] :
                  q \in {r \in {p - 1} : Cardinality(UnaryGates) < MaxUnary}}
         \cup {[type |-> "MUX",
                ops |-> <<GateAt(gate_sorting, 0), GateAt(gate_sorting, 1),
                          GateAt(gate_sorting, 2)>>]}

\* the orders in which the loop may walk the gates: ids ascending, or descending
VisitOrders ==
    {[i \in 1 .. CircuitSize |-> i - 1], [i \in 1 .. CircuitSize |-> CircuitSize - i]}

\* the loop reaches gate g, of description ch
ReachGate(g, ch) ==
    /\ operands' = [h \in ReachedGates \cup {g} |-> IF h = g THEN ch.ops ELSE operands[h]]
    /\ gateTypes' = [h \in ReachedGates \cup {g} |-> IF h = g THEN ch.type ELSE gateTypes[h]]
    /\ twoColoring' = TwoColoringStep(twoColoring, g, ch.ops)

\* ------------------------------------------------------------------------
\* The gate of the current round and the values the loop body derives
\* ------------------------------------------------------------------------
Running == outcome = "running" /\ visited < Len(gate_sorting)

gateId == GateAt(gate_sorting, visited)
two_color == twoColoring.gateColor[gateId]
child_1 == TwoColorAt(twoColoring, two_color).first_parent
child_2 == TwoColorAt(twoColoring, two_color).second_parent
first_child_two_color == twoColoring.gateColor[child_1]
second_child_two_color == twoColoring.gateColor[child_2]

common_colors == commonColors(gateColors[child_1], gateColors[child_2])
color_type_13 == colorType13(Coloring, gateColors[child_1], gateColors[child_2], child_1)
color_type_31 == colorType31(Coloring, gateColors[child_1], child_2)

\* the parents of the children's TwoColors (lines 333-336)
parent_1 == TwoColorAt(twoColoring, first_child_two_color).first_parent
parent_2 == TwoColorAt(twoColoring, first_child_two_color).second_parent
parent_3 == TwoColorAt(twoColoring, second_child_two_color).first_parent
parent_4 == TwoColorAt(twoColoring, second_child_two_color).second_parent

\* lines 293-301: a colour of child_1 over both parents of child_2's TwoColor
single_32 ==
    IF second_child_two_color = SIZE_MAX
    THEN SIZE_MAX
    ELSE scanBothParents(Coloring, gateColors[child_1], parent_3, parent_4)

\* lines 314-322: a colour of child_2 over both parents of child_1's TwoColor
single_23 ==
    IF first_child_two_color = SIZE_MAX
    THEN SIZE_MAX
    ELSE scanBothParents(Coloring, gateColors[child_2], parent_1, parent_2)

\* lines 149-163: a binary gate that gets no ThreeColor
withoutThreeColor ==
    \/ two_color = SIZE_MAX
    \/ first_child_two_color = SIZE_MAX /\ second_child_two_color = SIZE_MAX

\* a binary gate that reaches the pattern search of line 165
Searched == Running /\ Len(operands[gateId]) = 2 /\ ~withoutThreeColor

\* reaches line 210: no common colour was painted
NoCommon == Searched /\ Len(common_colors) \notin {1, 2}

\* reaches line 284: neither a common colour nor a 1-3 / 3-1 colour
NoPattern == NoCommon /\ color_type_13 = SIZE_MAX /\ color_type_31 = SIZE_MAX

\* reaches line 330
NoSingle == NoPattern /\ single_32 = SIZE_MAX /\ single_23 = SIZE_MAX

\* reaches line 333
Pattern22 ==
    /\ NoSingle
    /\ first_child_two_color # SIZE_MAX
    /\ second_child_two_color # SIZE_MAX

\* reaches line 374
OneChildColored ==
    /\ NoSingle
    /\ first_child_two_color = SIZE_MAX \/ second_child_two_color = SIZE_MAX

\* the loop moves on to the next gate, if there is one
NextRound ==
    /\ visited' = visited + 1
    /\ IF visited + 1 < Len(gate_sorting)
       THEN \E ch \in GateChoices(visited + 1) :
               ReachGate(GateAt(gate_sorting, visited + 1), ch)
       ELSE UNCHANGED <<operands, gateTypes, twoColoring>>

\* the round ends: the colouring S replaces the current one
Advance(S, branch) ==
    /\ colors' = S.colors
    /\ gateColors' = S.gateColors
    /\ parentsToColor' = S.parentsToColor
    /\ next_color_id_' = S.next_color_id_
    /\ gateBranch' = [gateBranch EXCEPT ![gateId] = branch]
    /\ NextRound
    /\ UNCHANGED <<gate_sorting, outcome, exit_status, diag_gate>>
    /\ UNCHANGED <<dbVars, regVars>>

\* ------------------------------------------------------------------------
\* Initial state (lines 108-115): the sort, an empty colouring; the loop has
\* reached its first gate
\* ------------------------------------------------------------------------
ColoringInit ==
    /\ gate_sorting \in {Reverse(v) : v \in VisitOrders}
    /\ operands = [g \in {GateAt(gate_sorting, 0)} |-> <<>>]
    /\ gateTypes = [g \in {GateAt(gate_sorting, 0)} |-> "INPUT"]
    /\ twoColoring = [colors |-> <<>>, gateColor |-> [g \in GateIds |-> SIZE_MAX]]
    /\ colors = <<>>
    /\ gateColors = [g \in GateIds |-> <<>>]
    /\ parentsToColor = <<>>
    /\ negationUsers = [g \in GateIds |-> SIZE_MAX]
    /\ next_color_id_ = 0
    /\ visited = 0
    /\ outcome = "running"
    /\ exit_status = 0
    /\ diag_gate = SIZE_MAX
    /\ gateBranch = [g \in GateIds |-> "none"]

\* no ThreeColoring is under construction
ColoringIdle ==
    /\ gate_sorting = <<>>
    /\ operands = <<>>
    /\ gateTypes = <<>>
    /\ twoColoring = [colors |-> <<>>, gateColor |-> <<>>]
    /\ colors = <<>>
    /\ gateColors = <<>>
    /\ parentsToColor = <<>>
    /\ negationUsers = <<>>
    /\ next_color_id_ = 0
    /\ visited = 0
    /\ outcome = "idle"
    /\ exit_status = 0
    /\ diag_gate = SIZE_MAX
    /\ gateBranch = <<>>

\* the null shared_ptr
nullptr == 0

\* no database is being read
DBIdle ==
    /\ subcircuit_pattern_to_index = <<>>
    /\ subcircuit_outputs = <<>>
    /\ gates_operands = <<>>
    /\ OPER_number = <<>>
    /\ gates_operations = <<>>
    /\ subcircuit_index = 0
    /\ inputs_number = 0
    /\ max_index = 0
    /\ gate_index = 0
    /\ db_pc = "idle"
    /\ db_records = <<>>

\* the registry is not in use
RegistryIdle ==
    /\ bench_db = nullptr
    /\ aig_db = nullptr
    /\ next_handle = 1
    /\ returned = nullptr
    /\ last_call = "none"
    /\ calls = 0
    /\ reg_outcome = "idle"

Init == ColoringInit /\ DBIdle /\ RegistryIdle

\* ------------------------------------------------------------------------
\* One action per branch of the loop body
\* ------------------------------------------------------------------------
\* lines 121-125: input or constant
VisitInput ==
    /\ Running
    /\ operands[gateId] = <<>>
    /\ negationUsers' = negationUsers
    /\ Advance(Coloring, "input")

\* the unary branch without the check of line 135: any unary gate is recorded
VisitUnaryAnyType ==
    /\ Running
    /\ Len(operands[gateId]) = 1
    /\ negationUsers' = [negationUsers EXCEPT ![operands[gateId][1]] = gateId]
    /\ Advance(paintAll(Coloring, gateId, gateColors[operands[gateId][1]]), "unary")

\* the unary branch painting operands[0] in place of gateId at line 130
VisitUnaryPaintsOperand ==
    /\ Running
    /\ Len(operands[gateId]) = 1
    /\ negationUsers' =
          IF gateTypes[gateId] = "NOT"
          THEN [negationUsers EXCEPT ![operands[gateId][1]] = gateId]
          ELSE negationUsers
    /\ Advance(paintAll(Coloring, operands[gateId][1], gateColors[operands[gateId][1]]),
               "unary")

\* lines 126-140: unary operation
VisitUnary ==
    /\ Running
    /\ Len(operands[gateId]) = 1
    /\ negationUsers' =
          IF gateTypes[gateId] = "NOT"
          THEN [negationUsers EXCEPT ![operands[gateId][1]] = gateId]
          ELSE negationUsers
    /\ Advance(paintAll(Coloring, gateId, gateColors[operands[gateId][1]]), "unary")

\* the loop body without the check of lines 142-147: the gate is passed over
VisitNonBinaryUnchecked ==
    /\ Running
    /\ Len(operands[gateId]) > 2
    /\ negationUsers' = negationUsers
    /\ Advance(Coloring, "uncolored")

\* lines 141-147: a gate with more than two operands
VisitNonBinary ==
    /\ Running
    /\ Len(operands[gateId]) > 2
    /\ diag_gate' = gateId
    /\ exit_status' = -1
    /\ outcome' = "exit"
    /\ UNCHANGED <<operands, gateTypes, gate_sorting, twoColoring, colors, gateColors,
                   parentsToColor, negationUsers, next_color_id_, visited, gateBranch>>
    /\ UNCHANGED <<dbVars, regVars>>

\* lines 149-163
VisitUncolored ==
    /\ Running
    /\ Len(operands[gateId]) = 2
    /\ withoutThreeColor
    /\ negationUsers' = negationUsers
    /\ Advance(Coloring, "uncolored")

\* lines 189-194
VisitCommonTwo ==
    /\ Searched
    /\ Len(common_colors) = 2
    /\ negationUsers' = negationUsers
    /\ Advance(paintGate(paintGate(Coloring, gateId, common_colors[1]),
                         gateId, common_colors[2]), "common2")

\* lines 196-208
VisitCommonOne ==
    /\ Searched
    /\ Len(common_colors) = 1
    /\ negationUsers' = negationUsers
    /\ LET S1 == paintGate(Coloring, gateId, common_colors[1])
       IN  Advance(IF color_type_13 # SIZE_MAX
                   THEN paintGate(S1, gateId, color_type_13)
                   ELSE IF color_type_31 # SIZE_MAX
                        THEN paintGate(S1, gateId, color_type_31)
                        ELSE S1,
                   "common1")

\* secondColor without the "else" of lines 234 / 271: a found colour is painted
\* and a triple is synthesized as well
secondColorNoElse(S1, other, scanned) ==
    LET other_two_color == twoColoring.gateColor[other]
        p1 == TwoColorAt(twoColoring, other_two_color).first_parent
        p2 == TwoColorAt(twoColoring, other_two_color).second_parent
        found == scanBothParents(Coloring, gateColors[scanned], p1, p2)
    IN  IF other_two_color = SIZE_MAX
        THEN S1
        ELSE paintSynthesized(IF found # SIZE_MAX THEN paintGate(S1, gateId, found) ELSE S1,
                              gateId, p1, p2, scanned)

\* lines 213-243 and 250-280: the second colour of a 1-3 / 3-1 gate.  `other` is
\* the child whose TwoColor is consulted, `scanned` the child whose colours are
\* scanned and that completes a synthesized triple
secondColor(S1, other, scanned) ==
    LET other_two_color == twoColoring.gateColor[other]
        p1 == TwoColorAt(twoColoring, other_two_color).first_parent
        p2 == TwoColorAt(twoColoring, other_two_color).second_parent
        found == scanBothParents(Coloring, gateColors[scanned], p1, p2)
    IN  IF other_two_color = SIZE_MAX
        THEN S1
        ELSE IF found # SIZE_MAX
             THEN paintGate(S1, gateId, found)
             ELSE paintSynthesized(S1, gateId, p1, p2, scanned)

\* lines 210-245: a colour of child_2 has child_1 as a parent
VisitType13 ==
    /\ NoCommon
    /\ color_type_13 # SIZE_MAX
    /\ negationUsers' = negationUsers
    /\ Advance(secondColor(paintGate(Coloring, gateId, color_type_13), child_1, child_2),
               "type13")

\* lines 247-282: a colour of child_1 has child_2 as a parent
VisitType31 ==
    /\ NoCommon
    /\ color_type_13 = SIZE_MAX
    /\ color_type_31 # SIZE_MAX
    /\ negationUsers' = negationUsers
    /\ Advance(secondColor(paintGate(Coloring, gateId, color_type_31), child_2, child_1),
               "type31")

\* lines 288-307: single 3-2 pattern
VisitSingle32 ==
    /\ NoPattern
    /\ single_32 # SIZE_MAX
    /\ negationUsers' = negationUsers
    /\ Advance(paintGate(Coloring, gateId, single_32), "single32")

\* lines 309-328: single 2-3 pattern
VisitSingle23 ==
    /\ NoPattern
    /\ single_32 = SIZE_MAX
    /\ single_23 # SIZE_MAX
    /\ negationUsers' = negationUsers
    /\ Advance(paintGate(Coloring, gateId, single_23), "single23")

\* lines 337-345: child_2's pair contains parent_1
Visit22SharedFirst ==
    /\ Pattern22
    /\ hasParent2(TwoColorAt(twoColoring, second_child_two_color), parent_1)
    /\ negationUsers' = negationUsers
    /\ Advance(paintSynthesized(Coloring, gateId, parent_2, parent_3, parent_4),
               "22sharedFirst")

\* lines 346-354 with the triple of lines 337-345
Visit22SharedSecondWrongTriple ==
    /\ Pattern22
    /\ ~hasParent2(TwoColorAt(twoColoring, second_child_two_color), parent_1)
    /\ hasParent2(TwoColorAt(twoColoring, second_child_two_color), parent_2)
    /\ negationUsers' = negationUsers
    /\ Advance(paintSynthesized(Coloring, gateId, parent_2, parent_3, parent_4),
               "22sharedSecond")

\* lines 346-354: child_2's pair contains parent_2
Visit22SharedSecond ==
    /\ Pattern22
    /\ ~hasParent2(TwoColorAt(twoColoring, second_child_two_color), parent_1)
    /\ hasParent2(TwoColorAt(twoColoring, second_child_two_color), parent_2)
    /\ negationUsers' = negationUsers
    /\ Advance(paintSynthesized(Coloring, gateId, parent_1, parent_3, parent_4),
               "22sharedSecond")

\* lines 355-370: the two pairs are disjoint
Visit22Disjoint ==
    /\ Pattern22
    /\ ~hasParent2(TwoColorAt(twoColoring, second_child_two_color), parent_1)
    /\ ~hasParent2(TwoColorAt(twoColoring, second_child_two_color), parent_2)
    /\ negationUsers' = negationUsers
    /\ Advance(paintSynthesized(
                   paintSynthesized(Coloring, gateId, parent_1, parent_2, child_2),
                   gateId, parent_3, parent_4, child_1),
               "22disjoint")

\* lines 374-392: only one child has a TwoColor
VisitFallback ==
    /\ OneChildColored
    /\ negationUsers' = negationUsers
    /\ IF first_child_two_color # SIZE_MAX
       THEN Advance(paintSynthesized(Coloring, gateId, parent_1, parent_2, child_2),
                    "fallback")
       ELSE Advance(paintSynthesized(Coloring, gateId, parent_3, parent_4, child_1),
                    "fallback")

\* line 394: the loop is over, the constructor returns
Finish ==
    /\ outcome = "running"
    /\ visited = Len(gate_sorting)
    /\ outcome' = "done"
    /\ UNCHANGED <<operands, gateTypes, gate_sorting, twoColoring, colors, gateColors,
                   parentsToColor, negationUsers, next_color_id_, visited,
                   exit_status, diag_gate, gateBranch>>
    /\ UNCHANGED <<dbVars, regVars>>

Next ==
    \/ VisitInput
    \/ VisitUnary
    \/ VisitNonBinary
    \/ VisitUncolored
    \/ VisitCommonTwo
    \/ VisitCommonOne
    \/ VisitType13
    \/ VisitType31
    \/ VisitSingle32
    \/ VisitSingle23
    \/ Visit22SharedFirst
    \/ Visit22SharedSecond
    \/ Visit22Disjoint
    \/ VisitFallback
    \/ Finish

Spec == Init /\ [][Next]_vars

\* ========================================================================
\* CircuitDB::read_db (circuits_db.hpp).  The file is a stream of tokens; the
\* model draws each token when the code extracts it, from the values below,
\* so a run reads one file the extractions of read_db all succeed on, up to
\* its end.
\* ========================================================================
\* values of a record's inputs_number
InputNumbers == {2}
\* values of an output code (a truth table in decimal form)
Patterns == {6, 8}
\* values of an output index
OutputIds == 1 .. MaxGateId
\* values of an operand index: the first input, or the largest gate id
OperandIds == {0, MaxGateId}
\* values of an operation token
Operations == {"AND", "NOT"}

\* std::max over the elements of a sequence of gate ids, starting from 0
\* (lines 90-95)
MaxOfSeq(seq) ==
    IF seq = <<>> THEN 0
    ELSE CHOOSE m \in {seq[k] : k \in DOMAIN seq} : \A k \in DOMAIN seq : seq[k] <= m

\* std::map::insert in place of operator[]: a key already present keeps its value
MapInsert(map, key, value) ==
    [k \in DOMAIN map \cup {key} |-> IF k \in DOMAIN map THEN map[k] ELSE value]

\* operator[] assignment of std::map (line 86)
MapAssign(map, key, value) ==
    [k \in DOMAIN map \cup {key} |-> IF k = key THEN value ELSE map[k]]

\* the CircuitDB is default-constructed and read_db opens the file (lines 67-70)
DBInit ==
    /\ subcircuit_pattern_to_index = <<>>
    /\ subcircuit_outputs = <<>>
    /\ gates_operands = <<>>
    /\ OPER_number = <<>>
    /\ gates_operations = <<>>
    /\ subcircuit_index = 0
    /\ inputs_number = 0
    /\ max_index = 0
    /\ gate_index = 0
    /\ db_pc = "record"
    /\ db_records = <<>>

\* lines 74-103: the head of a record, up to the start of the gate loop
ReadRecord ==
    /\ db_pc = "record"
    /\ subcircuit_index < MaxRecords
    /\ \E in \in InputNumbers, outputs_number \in 1 .. MaxOutputs :
          \E outputs_patterns \in [1 .. outputs_number -> Patterns],
             cur_outputs \in [1 .. outputs_number -> OutputIds] :
             /\ inputs_number' = in
             /\ subcircuit_pattern_to_index' =
                   MapAssign(subcircuit_pattern_to_index, outputs_patterns, subcircuit_index)
             /\ max_index' = MaxOfSeq(cur_outputs)
             /\ subcircuit_outputs' = Append(subcircuit_outputs, cur_outputs)
             /\ gate_index' = in
             /\ db_records' = Append(db_records,
                                     [inputs_number |-> in,
                                      outputs_patterns |-> outputs_patterns])
    /\ gates_operands' = Append(gates_operands, <<>>)
    /\ gates_operations' = Append(gates_operations, <<>>)
    /\ OPER_number' = Append(OPER_number, 0)
    /\ db_pc' = "gates"
    /\ UNCHANGED subcircuit_index
    /\ UNCHANGED <<coloringVars, regVars>>

\* the gate loop without lines 117 and 123: its bound stays the largest output id
ReadGateFixedBound ==
    /\ db_pc = "gates"
    /\ gate_index <= max_index
    /\ \E operation \in Operations, operand_1 \in OperandIds, operand_2 \in OperandIds :
          LET operands_ == IF operation # "NOT"
                           THEN <<operand_1, operand_2>>
                           ELSE <<operand_1>>
          IN /\ gates_operations' =
                   [gates_operations EXCEPT ![subcircuit_index + 1] = Append(@, operation)]
             /\ OPER_number' =
                   [OPER_number EXCEPT ![subcircuit_index + 1] =
                        IF operation # "NOT" THEN @ + 1 ELSE @]
             /\ gates_operands' =
                   [gates_operands EXCEPT ![subcircuit_index + 1] = Append(@, operands_)]
    /\ max_index' = max_index
    /\ gate_index' = gate_index + 1
    /\ UNCHANGED <<subcircuit_pattern_to_index, subcircuit_outputs, subcircuit_index,
                   inputs_number, db_pc, db_records>>
    /\ UNCHANGED <<coloringVars, regVars>>

\* lines 103-128: one round of the gate loop
ReadGate ==
    /\ db_pc = "gates"
    /\ gate_index <= max_index
    /\ \E operation \in Operations, operand_1 \in OperandIds, operand_2 \in OperandIds :
          LET operands_ == IF operation # "NOT"
                           THEN <<operand_1, operand_2>>
                           ELSE <<operand_1>>
          IN /\ gates_operations' =
                   [gates_operations EXCEPT ![subcircuit_index + 1] = Append(@, operation)]
             /\ max_index' = Max2(max_index, MaxOfSeq(operands_))
             /\ OPER_number' =
                   [OPER_number EXCEPT ![subcircuit_index + 1] =
                        IF operation # "NOT" THEN @ + 1 ELSE @]
             /\ gates_operands' =
                   [gates_operands EXCEPT ![subcircuit_index + 1] = Append(@, operands_)]
    /\ gate_index' = gate_index + 1
    /\ UNCHANGED <<subcircuit_pattern_to_index, subcircuit_outputs, subcircuit_index,
                   inputs_number, db_pc, db_records>>
    /\ UNCHANGED <<coloringVars, regVars>>

\* lines 103, 129: the gate loop ends, the record is complete
EndRecord ==
    /\ db_pc = "gates"
    /\ gate_index > max_index
    /\ subcircuit_index' = subcircuit_index + 1
    /\ db_pc' = "record"
    /\ UNCHANGED <<subcircuit_pattern_to_index, subcircuit_outputs, gates_operands,
                   OPER_number, gates_operations, inputs_number, max_index, gate_index,
                   db_records>>
    /\ UNCHANGED <<coloringVars, regVars>>

\* line 74: the extraction of inputs_number fails at the end of the file
EndOfFile ==
    /\ db_pc = "record"
    /\ db_pc' = "eof"
    /\ UNCHANGED <<subcircuit_pattern_to_index, subcircuit_outputs, gates_operands,
                   OPER_number, gates_operations, subcircuit_index, inputs_number,
                   max_index, gate_index, db_records>>
    /\ UNCHANGED <<coloringVars, regVars>>

InitDB == ColoringIdle /\ DBInit /\ RegistryIdle

NextDB ==
    \/ ReadRecord
    \/ ReadGate
    \/ EndRecord
    \/ EndOfFile

SpecDB == InitDB /\ [][NextDB]_vars

\* ========================================================================
\* CircuitDB::CircuitDB and the DBSingleton registry (circuits_db.hpp).
\* A CircuitDB object is named by a positive number, nullptr is 0.
\* ========================================================================
\* values of the basis argument of the constructor
Bases == {"AIG", "BENCH", "OTHER"}

\* the process runs, both slots hold their default member initializer
RegistryInit ==
    /\ bench_db = nullptr
    /\ aig_db = nullptr
    /\ next_handle = 1
    /\ returned = nullptr
    /\ last_call = "none"
    /\ calls = 0
    /\ reg_outcome = "running"

\* lines 39-48: the constructor aborts on a basis that is neither BENCH nor
\* AIG, and on a path at which no file exists
ConstructAborts ==
    /\ reg_outcome = "running"
    /\ \E basis \in Bases, exists \in BOOLEAN :
          (basis \notin {"BENCH", "AIG"}) \/ ~exists
    /\ reg_outcome' = "abort"
    /\ last_call' = "ctor"
    /\ UNCHANGED <<bench_db, aig_db, next_handle, returned, calls>>
    /\ UNCHANGED <<coloringVars, dbVars>>

\* lines 37-51 pass, and the new object is stored in the slot of its basis
LoadDB ==
    /\ reg_outcome = "running"
    /\ next_handle <= NumHandles
    /\ \E basis \in {"BENCH", "AIG"} :
          /\ aig_db' = IF basis = "AIG" THEN next_handle ELSE aig_db
          /\ bench_db' = IF basis = "BENCH" THEN next_handle ELSE bench_db
    /\ next_handle' = next_handle + 1
    /\ last_call' = "ctor"
    /\ UNCHANGED <<returned, calls, reg_outcome>>
    /\ UNCHANGED <<coloringVars, dbVars>>

\* lines 152-160
getAigDB ==
    /\ reg_outcome = "running"
    /\ calls < MaxCalls
    /\ IF aig_db = nullptr
       THEN reg_outcome' = "abort" /\ returned' = nullptr
       ELSE reg_outcome' = reg_outcome /\ returned' = aig_db
    /\ last_call' = "aig"
    /\ calls' = calls + 1
    /\ UNCHANGED <<bench_db, aig_db, next_handle>>
    /\ UNCHANGED <<coloringVars, dbVars>>

\* getBenchDB reading the slot of the other basis
getBenchDBOtherSlot ==
    /\ reg_outcome = "running"
    /\ calls < MaxCalls
    /\ IF aig_db = nullptr
       THEN reg_outcome' = "abort" /\ returned' = nullptr
       ELSE reg_outcome' = reg_outcome /\ returned' = aig_db
    /\ last_call' = "bench"
    /\ calls' = calls + 1
    /\ UNCHANGED <<bench_db, aig_db, next_handle>>
    /\ UNCHANGED <<coloringVars, dbVars>>

\* lines 162-170
getBenchDB ==
    /\ reg_outcome = "running"
    /\ calls < MaxCalls
    /\ IF bench_db = nullptr
       THEN reg_outcome' = "abort" /\ returned' = nullptr
       ELSE reg_outcome' = reg_outcome /\ returned' = bench_db
    /\ last_call' = "bench"
    /\ calls' = calls + 1
    /\ UNCHANGED <<bench_db, aig_db, next_handle>>
    /\ UNCHANGED <<coloringVars, dbVars>>

InitRegistry == ColoringIdle /\ DBIdle /\ RegistryInit

NextRegistry ==
    \/ ConstructAborts
    \/ LoadDB
    \/ getAigDB
    \/ getBenchDB

SpecRegistry == InitRegistry /\ [][NextRegistry]_vars

\* ========================================================================
\* Properties of the ThreeColoring pass
\* ========================================================================
Done == outcome = "done"

\* the gates the loop body has run for
VisitedGates == {GateAt(gate_sorting, p) : p \in 0 .. (visited - 1)}

ParentSet(colorId) ==
    {colors[colorId + 1].first_parent, colors[colorId + 1].second_parent,
     colors[colorId + 1].third_parent}

ColorSet(g) == {gateColors[g][i] : i \in 1 .. Len(gateColors[g])}

\* C1: at every point of the pass, and so when it completes, every gate carries
\* at most two ThreeColors
AtMostTwoColors == \A g \in GateIds : Len(gateColors[g]) <= 2

\* a completed pass that left two colours on a binary gate and on a unary gate
AtMostTwoColorsWitness ==
    /\ Done
    /\ \E g \in GateIds : Len(operands[g]) = 2 /\ Len(gateColors[g]) = 2
    /\ \E g \in GateIds : Len(operands[g]) = 1 /\ Len(gateColors[g]) = 2

\* every operand path from g down to a primary input passes through a gate of P
RECURSIVE OnlyThrough(_, _)
OnlyThrough(g, P) ==
    \/ g \in P
    \/ /\ operands[g] # <<>>
       /\ \A i \in 1 .. Len(operands[g]) : OnlyThrough(operands[g][i], P)

\* C2: cone soundness: a gate painted with a colour is none of the colour's
\* parents, and every operand path from it down to a primary input passes
\* through one of the three parents
ConeSoundness ==
    \A g \in GateIds : \A c \in ColorSet(g) :
        g \notin ParentSet(c) /\ OnlyThrough(g, ParentSet(c))

\* a completed pass with a gate that is painted and is not a direct user of
\* parents only
ConeSoundnessWitness ==
    /\ Done
    /\ \E g \in GateIds : \E c \in ColorSet(g) :
          /\ Len(operands[g]) = 2
          /\ operands[g][1] \notin ParentSet(c)
          /\ operands[g][2] \notin ParentSet(c)

\* C3: parentsToColor is a bijection between its keys and the ColorIds; the key
\* of a ColorId is the ascending parent triple stored in colors; no two colours
\* have the same triple; getColorsNumber() = colors.size() = parentsToColor.size()
ParentsToColorBijection ==
    /\ next_color_id_ = Len(colors)
    /\ Cardinality(DOMAIN parentsToColor) = Len(colors)
    /\ \A key \in DOMAIN parentsToColor :
          /\ parentsToColor[key] \in 0 .. (Len(colors) - 1)
          /\ getParents(colors[parentsToColor[key] + 1]) = key
          /\ key[1] <= key[2] /\ key[2] <= key[3]
    /\ \A id \in 0 .. (Len(colors) - 1) :
          /\ getParents(colors[id + 1]) \in DOMAIN parentsToColor
          /\ parentsToColor[getParents(colors[id + 1])] = id
    /\ \A i, j \in 1 .. Len(colors) :
          getParents(colors[i]) = getParents(colors[j]) => i = j

\* a completed pass in which a synthesized triple was found in the map: two
\* gates of the fallback branch share a colour, and there are other colours
ParentsToColorBijectionWitness ==
    /\ Done
    /\ Len(colors) >= 2
    /\ \E g, h \in GateIds :
          /\ g # h
          /\ gateBranch[g] = "fallback" /\ gateBranch[h] = "fallback"
          /\ ColorSet(g) \cap ColorSet(h) # {}

\* C4: a gate with more than two operands ends the construction: the loop never
\* gets past it, so the pass never completes on a circuit that has one, and the
\* exit names the gate and has status -1
NonBinaryIsFatal ==
    /\ \A g \in ReachedGates :
          Len(operands[g]) > 2 => g = gateId /\ outcome # "done"
    /\ outcome = "exit" =>
          /\ exit_status = -1
          /\ diag_gate = gateId
          /\ Len(operands[diag_gate]) > 2
    /\ outcome # "exit" => exit_status = 0 /\ diag_gate = SIZE_MAX

\* the construction ended in the fatal exit after colours had been painted
NonBinaryIsFatalWitness ==
    /\ outcome = "exit"
    /\ Len(operands[diag_gate]) = 3
    /\ Len(colors) > 0

\* the parents of the TwoColor of a gate that has one
Child1(g) == TwoColorAt(twoColoring, twoColoring.gateColor[g]).first_parent
Child2(g) == TwoColorAt(twoColoring, twoColoring.gateColor[g]).second_parent

\* binary gates with a TwoColor whose children share no ThreeColor
BinaryNoCommon ==
    {g \in ReachedGates :
        /\ Len(operands[g]) = 2
        /\ twoColoring.gateColor[g] # SIZE_MAX
        /\ ColorSet(Child1(g)) \cap ColorSet(Child2(g)) = {}}

\* the colours painted on child_2 that have child_1 among their parents
Colors13(g) == {c \in ColorSet(Child2(g)) : Child1(g) \in ParentSet(c)}

\* C7: when the pass completes, a binary gate whose children share no
\* ThreeColor is painted with every colour of child_2 that has child_1 among
\* its parents
Type13Painted ==
    Done => \A g \in BinaryNoCommon : Colors13(g) \subseteq ColorSet(g)

\* the NOT gates whose single operand is x
NotUsers(x) == {g \in ReachedGates : gateTypes[g] = "NOT" /\ operands[g] = <<x>>}

\* C8: when the pass completes, a gate with one operand carries exactly the
\* ThreeColors of its operand, in the same order; negationUsers[x] is SIZE_MAX
\* when x has no NOT user, and a NOT gate whose single operand is x otherwise
UnaryInherits ==
    Done =>
      /\ \A g \in ReachedGates :
            Len(operands[g]) = 1 => gateColors[g] = gateColors[operands[g][1]]
      /\ \A x \in GateIds :
            IF NotUsers(x) = {}
            THEN negationUsers[x] = SIZE_MAX
            ELSE negationUsers[x] \in NotUsers(x)

\* a completed pass with a painted NOT gate recorded as the negation user of
\* its operand, and a unary gate that is no NOT and leaves no record
UnaryInheritsWitness ==
    /\ Done
    /\ \E g \in ReachedGates :
          /\ gateTypes[g] = "NOT"
          /\ gateColors[g] # <<>>
          /\ negationUsers[operands[g][1]] = g
    /\ \E g \in ReachedGates :
          /\ gateTypes[g] = "BUFF"
          /\ negationUsers[operands[g][1]] = SIZE_MAX

\* the parents of the TwoColors of the children of a gate
P1(g) == TwoColorAt(twoColoring, twoColoring.gateColor[Child1(g)]).first_parent
P2(g) == TwoColorAt(twoColoring, twoColoring.gateColor[Child1(g)]).second_parent
P3(g) == TwoColorAt(twoColoring, twoColoring.gateColor[Child2(g)]).first_parent
P4(g) == TwoColorAt(twoColoring, twoColoring.gateColor[Child2(g)]).second_parent

\* binary gates whose children both have a TwoColor and match none of the
\* common, 3-1, 1-3, 3-2, 2-3 patterns
Gates22 ==
    {g \in BinaryNoCommon :
        /\ twoColoring.gateColor[Child1(g)] # SIZE_MAX
        /\ twoColoring.gateColor[Child2(g)] # SIZE_MAX
        /\ Colors13(g) = {}
        /\ \A c \in ColorSet(Child1(g)) :
              /\ Child2(g) \notin ParentSet(c)
              /\ ~({P3(g), P4(g)} \subseteq ParentSet(c))
        /\ \A c \in ColorSet(Child2(g)) : ~({P1(g), P2(g)} \subseteq ParentSet(c))}

\* the colour of a triple, looked up in sorted form; SIZE_MAX if it has none
ColorOfTriple(a, b, c) ==
    IF sortedParents(a, b, c) \in DOMAIN parentsToColor
    THEN parentsToColor[sortedParents(a, b, c)]
    ELSE SIZE_MAX

\* C9: when the pass completes, a gate of the 2-2 case is painted with exactly
\* the colour of {p2,p3,p4} if p1 is in {p3,p4}; else with exactly the colour
\* of {p1,p3,p4} if p2 is in {p3,p4}; else with exactly the two colours of
\* {p1,p2,child_2} and {p3,p4,child_1}; and no triple has two colours
Painted22 ==
    Done =>
      /\ \A g \in Gates22 :
            gateColors[g] =
               IF P1(g) \in {P3(g), P4(g)}
               THEN <<ColorOfTriple(P2(g), P3(g), P4(g))>>
               ELSE IF P2(g) \in {P3(g), P4(g)}
                    THEN <<ColorOfTriple(P1(g), P3(g), P4(g))>>
                    ELSE <<ColorOfTriple(P1(g), P2(g), Child2(g)),
                           ColorOfTriple(P3(g), P4(g), Child1(g))>>
      /\ \A i, j \in 1 .. Len(colors) :
            getParents(colors[i]) = getParents(colors[j]) => i = j

\* a completed pass with a gate of the 2-2 case whose TwoColor pairs overlap,
\* and one whose pairs are disjoint, painted with two colours of which one had
\* been created for another gate
Painted22Witness ==
    /\ Done
    /\ \E g \in Gates22 : {P1(g), P2(g)} \cap {P3(g), P4(g)} # {}
    /\ \E g \in Gates22 :
          /\ {P1(g), P2(g)} \cap {P3(g), P4(g)} = {}
          /\ Len(gateColors[g]) = 2
          /\ \E c \in ColorSet(g) : Head(colors[c + 1].gates_) # g

\* the gates whose gateColors entry the current round reads (lines 128, 170-328)
ColorsRead ==
    IF Len(operands[gateId]) = 1
    THEN {operands[gateId][1]}
    ELSE IF Len(operands[gateId]) = 2 /\ ~withoutThreeColor
         THEN {child_1, child_2}
         ELSE {}

TimesPainted(c, g) ==
    Cardinality({k \in DOMAIN colors[c + 1].gates_ : colors[c + 1].gates_[k] = g})

\* C13: the ColorIds in gateColors[g] are pairwise distinct, the gate list of a
\* colour holds each gate at most once, and g is in the gate list of c exactly
\* when c is in gateColors[g]
NoDuplicatePainting ==
    /\ \A g \in DOMAIN gateColors :
          \A i, j \in DOMAIN gateColors[g] : gateColors[g][i] = gateColors[g][j] => i = j
    /\ \A c \in 0 .. (Len(colors) - 1) :
          \A g \in DOMAIN gateColors :
             /\ TimesPainted(c, g) <= 1
             /\ TimesPainted(c, g) = 1 <=> c \in ColorSet(g)

\* C14: every ThreeColor created has three pairwise distinct parents,
\* first_parent < second_parent < third_parent
NonDegenerateTriples ==
    \A i \in DOMAIN colors :
       /\ colors[i].first_parent < colors[i].second_parent
       /\ colors[i].second_parent < colors[i].third_parent

\* ========================================================================
\* Properties of read_db
\* ========================================================================
DBRead == db_pc = "eof"

\* a sequence of integers put in ascending order
RECURSIVE Ascending(_)
Ascending(seq) ==
    IF seq = <<>> THEN <<>>
    ELSE LET m == CHOOSE x \in {seq[k] : k \in DOMAIN seq} :
                     \A k \in DOMAIN seq : x <= seq[k]
             p == CHOOSE k \in DOMAIN seq : seq[k] = m
         IN <<m>> \o Ascending([k \in 1 .. (Len(seq) - 1) |->
                                   IF k < p THEN seq[k] ELSE seq[k + 1]])

\* C5: after read_db every key of subcircuit_pattern_to_index is in ascending
\* order, and the lookup of the ascending-sorted output patterns of any record
\* read hits a record with exactly those output functions
KeysCanonical ==
    DBRead =>
      /\ \A key \in DOMAIN subcircuit_pattern_to_index : Ascending(key) = key
      /\ \A r \in DOMAIN db_records :
            LET key == Ascending(db_records[r].outputs_patterns)
            IN /\ key \in DOMAIN subcircuit_pattern_to_index
               /\ Ascending(db_records[subcircuit_pattern_to_index[key] + 1].outputs_patterns)
                     = key

\* the largest output id of record r
MaxOutputId(r) == MaxOfSeq(subcircuit_outputs[r])

\* the largest id among the output ids of record r and the operand ids of the
\* gates read for it
MaxNamedId(r) ==
    LET ids == {subcircuit_outputs[r][k] : k \in DOMAIN subcircuit_outputs[r]}
               \cup UNION {{gates_operands[r][k][j] : j \in DOMAIN gates_operands[r][k]} :
                              k \in DOMAIN gates_operands[r]}
    IN CHOOSE m \in ids : \A x \in ids : x <= m

\* record r holds gate descriptions for exactly the ids inputs_number..max_id,
\* one GateType and one operand list each, 1 operand for NOT and 2 otherwise
FramedBy(r, max_id) ==
    LET n == IF max_id < db_records[r].inputs_number
             THEN 0
             ELSE max_id - db_records[r].inputs_number + 1
    IN /\ Len(gates_operations[r]) = n
       /\ Len(gates_operands[r]) = n
       /\ \A k \in 1 .. n :
             Len(gates_operands[r][k]) = IF gates_operations[r][k] = "NOT" THEN 1 ELSE 2

\* C10 as stated: after read_db every record holds the gates of the ids
\* inputs_number..max_id, max_id being the largest output id of the record
RecordFraming ==
    DBRead => \A r \in DOMAIN db_records : FramedBy(r, MaxOutputId(r))

\* C10: after read_db every record holds the gates of the ids
\* inputs_number..max_id, max_id being the largest id among the output ids of
\* the record and the operand ids of the gates read for it
RecordFramingByNamedIds ==
    DBRead => \A r \in DOMAIN db_records : FramedBy(r, MaxNamedId(r))

\* a file read to its end with a record without gates, and a record holding a
\* NOT gate and a gate whose operand id exceeds every output id
RecordFramingByNamedIdsWitness ==
    /\ DBRead
    /\ \E r \in DOMAIN db_records : gates_operands[r] = <<>>
    /\ \E r \in DOMAIN db_records :
          /\ MaxNamedId(r) > MaxOutputId(r)
          /\ \E k \in DOMAIN gates_operations[r] : gates_operations[r][k] = "NOT"

\* the records read whose output patterns are the vector key
RecordsWithKey(key) == {r \in DOMAIN db_records : db_records[r].outputs_patterns = key}

\* the number of gates of record r that are no NOT
BinaryGateCount(r) ==
    Cardinality({k \in DOMAIN gates_operations[r] : gates_operations[r][k] # "NOT"})

\* C11: after read_db over n records the four per-record lists have length n,
\* the entries at index i belong together, every value of
\* subcircuit_pattern_to_index is an index in 0..n-1, the keys are the output
\* pattern vectors of the records, and each key maps to the last record that
\* has it
DuplicateKeysOverwritten ==
    DBRead =>
      LET n == Len(db_records)
      IN /\ subcircuit_index = n
         /\ Len(subcircuit_outputs) = n
         /\ Len(gates_operands) = n
         /\ Len(gates_operations) = n
         /\ Len(OPER_number) = n
         /\ \A r \in 1 .. n :
               /\ Len(subcircuit_outputs[r]) = Len(db_records[r].outputs_patterns)
               /\ Len(gates_operands[r]) = Len(gates_operations[r])
               /\ OPER_number[r] = BinaryGateCount(r)
         /\ DOMAIN subcircuit_pattern_to_index =
               {db_records[r].outputs_patterns : r \in 1 .. n}
         /\ \A key \in DOMAIN subcircuit_pattern_to_index :
               /\ subcircuit_pattern_to_index[key] \in 0 .. (n - 1)
               /\ subcircuit_pattern_to_index[key] + 1 \in RecordsWithKey(key)
               /\ \A r \in RecordsWithKey(key) : r <= subcircuit_pattern_to_index[key] + 1

\* a file read to its end with two records of the same output patterns and
\* different output indices: the key maps to the second
DuplicateKeysOverwrittenWitness ==
    /\ DBRead
    /\ Len(db_records) = 2
    /\ db_records[1].outputs_patterns = db_records[2].outputs_patterns
    /\ subcircuit_outputs[1] # subcircuit_outputs[2]
    /\ subcircuit_pattern_to_index[db_records[1].outputs_patterns] = 1
    /\ gates_operands[1] # <<>>

\* ========================================================================
\* Properties of the registry
\* ========================================================================
\* C6: an access to the registry leaves both slots unchanged; with the slot of
\* its basis unset it ends in the abort outcome and returns no handle, with
\* the slot set it returns the handle stored there
RegistryAccess ==
    [][calls' = calls + 1 =>
         /\ aig_db' = aig_db
         /\ bench_db' = bench_db
         /\ last_call' \in {"aig", "bench"}
         /\ LET slot == IF last_call' = "aig" THEN aig_db ELSE bench_db
            IN IF slot = nullptr
               THEN reg_outcome' = "abort" /\ returned' = nullptr
               ELSE reg_outcome' = "running" /\ returned' = slot]_vars

\* getAigDB aborted although the BENCH slot was set and an earlier access had
\* returned a handle
RegistryAccessWitness ==
    /\ reg_outcome = "abort"
    /\ last_call = "aig"
    /\ aig_db = nullptr
    /\ bench_db # nullptr
    /\ calls >= 2

====
